---------------------------- MODULE Spec2Model ----------------------------
(***************************************************************************)
(* Location-sensitive attention (models/attention.py).                     *)
(*                                                                         *)
(* Tensors are functions indexed from 1: [batch][time], [batch][time][unit].*)
(* float32 values are modelled as fixed-point integers with ONE standing   *)
(* for 1.0; every product, quotient and transcendental is rounded to the   *)
(* nearest representable value, so equalities between reals hold only up   *)
(* to rounding, as they do in float32.  -inf (the score mask value) is the *)
(* distinguished value NegInf.                                             *)
(***************************************************************************)
EXTENDS Integers, Sequences, FiniteSets

(***************************************************************************)
(* Bounds of the model.                                                    *)
(***************************************************************************)
BatchSize == 2
MaxTime == 3
NumUnits == 2
QueryDepth == 1
MemoryDepth == 1
AttentionFilters == 2
AttentionKernel == 3
MaxCalls == 3

VARIABLES
    smoothing,               \* constructor argument
    memory_sequence_length,  \* constructor argument: NoLengths or a length per row
    _probability_fn,         \* normalization function handed to the base class
    keys,                    \* self.keys: the projected memory, cached by the base
    memory_layer_calls,      \* how many times the memory layer was applied
    scope_count,             \* variable scope store: how often each scope name was opened
    var_store,               \* variable store: scope index -> value of <scope>/v_a
    state,                   \* the alignment state the decoder holds between steps
    calls,                   \* number of __call__ invocations so far
    last,                    \* arguments, intermediates and results of the last __call__
    history                  \* one record per __call__: what it read and returned

vars == <<smoothing, memory_sequence_length, _probability_fn, keys, memory_layer_calls,
          scope_count, var_store, state, calls, last, history>>

Rows == 1..BatchSize
Times == 1..MaxTime
Units == 1..NumUnits
Filters == 1..AttentionFilters
Taps == 1..AttentionKernel

(***************************************************************************)
(* Fixed-point arithmetic.                                                 *)
(***************************************************************************)
ONE == 2^6
NegInf == -(2^20)
\* Python None: as a function value (probability_fn), and as a length vector
None == "None"
NoLengths == <<>>

\* a / d rounded to the nearest integer (d > 0)
Round(a, d) == (2 * a + d) \div (2 * d)

RECURSIVE SumTo(_, _)
SumTo(f, n) == IF n = 0 THEN 0 ELSE f[n] + SumTo(f, n - 1)

RECURSIVE MaxTo(_, _)
MaxTo(f, n) ==
    IF n = 1 THEN f[1]
    ELSE LET m == MaxTo(f, n - 1)
             x == f[n]
         IN  IF x > m THEN x ELSE m

\* a tensor evaluated once, so that reading its entries does not recompute them
Materialized(f) == IF f = f THEN f ELSE f

Abs(a) == IF a < 0 THEN -a ELSE a

\* tf.tanh: odd, monotone, saturating at +-1
Tanh(v) ==
    IF v >= 3 * ONE THEN ONE
    ELSE IF v <= -3 * ONE THEN -ONE
    ELSE Round(v * (27 * ONE * ONE + v * v), 27 * ONE * ONE + 9 * v * v)

\* exp(-y) for y >= 0: positive, decreasing, exp(0) = 1
ExpNeg(y) ==
    Round(ONE * ONE,
          ONE + y + Round(y * y, 2 * ONE) + Round(y * y * y, 6 * ONE * ONE))

\* exp(z) for z <= 0, exp(-inf) = 0
Exp(z) == IF z = NegInf THEN 0 ELSE ExpNeg(-z)

\* tf.nn.sigmoid: 1 / (1 + exp(-x)), sigmoid(-inf) = 0
Sigmoid(x) ==
    IF x = NegInf THEN 0
    ELSE IF x >= 0 THEN Round(ONE * ONE, ONE + ExpNeg(x))
    ELSE Round(ExpNeg(-x) * ONE, ONE + ExpNeg(-x))

(***************************************************************************)
(* Learned parameters of the layers (fixed values; training is external).  *)
(***************************************************************************)
\* kernel of query_layer, Dense(num_units, use_bias=False): [query_depth][unit]
query_kernel == [d \in 1..QueryDepth |-> [u \in Units |->
                   IF (d + u) % 2 = 0 THEN ONE ELSE -(ONE \div 2)]]

\* kernel of memory_layer, Dense(num_units, use_bias=False): [memory_depth][unit]
memory_kernel == [d \in 1..MemoryDepth |-> [u \in Units |->
                    IF (d + u) % 2 = 0 THEN ONE \div 2 ELSE ONE]]

\* kernel of location_convolution, Conv1D(filters, kernel_size): [tap][filter]
location_convolution_kernel == [k \in Taps |-> [f \in Filters |->
                    (((k + 2 * f) % 3) - 1) * ONE]]

\* kernel of location_layer, Dense(num_units, use_bias=False): [filter][unit]
location_layer_kernel == [f \in Filters |-> [u \in Units |->
                    IF (f + u) % 2 = 0 THEN 2 * ONE ELSE -ONE]]

\* the values the initializer may give a newly created v_a
VaInits == { [u \in Units |-> ONE],
             [u \in Units |-> IF u % 2 = 1 THEN -ONE ELSE ONE \div 2] }

(***************************************************************************)
(* Inputs.                                                                 *)
(***************************************************************************)
\* memory [batch][time][memory_depth]
MemoryOf(seed) == [b \in Rows |-> [t \in Times |-> [d \in 1..MemoryDepth |->
                    (((b + 2 * t + d + seed) % 3) - 1) * ONE]]]

memory == MemoryOf(0)

\* memory_sequence_length: None (NoLengths), or one valid length in 1..MaxTime per row
LengthVectors == { [b \in Rows |-> ((b + k) % MaxTime) + 1] : k \in 0..1 }

\* queries [batch][query_depth]
QueryBatches == { [b \in Rows |-> [d \in 1..QueryDepth |-> (((b + d + k) % 3) - 1) * ONE]]
                    : k \in 0..1 }

(***************************************************************************)
(* Base attention mechanism (BahdanauAttention), as used by the subclass.  *)
(***************************************************************************)
\* memory rows are masked with zeros past the respective sequence lengths
PrepareMemory(mem, lengths) ==
    [b \in Rows |-> [t \in Times |-> [d \in 1..MemoryDepth |->
        IF lengths # NoLengths /\ t > lengths[b] THEN 0 ELSE mem[b][t][d]]]]

\* Dense without bias over the last axis of a [batch][time][depth] tensor
MemoryLayer(vals) ==
    [b \in Rows |-> [t \in Times |-> [u \in Units |->
        Round(SumTo([d \in 1..MemoryDepth |-> vals[b][t][d] * memory_kernel[d][u]],
                    MemoryDepth), ONE)]]]

\* faulty variant: the sequence lengths do not reach the score mask
MaybeMaskScoreNoMask(score, lengths) == score

\* score masked with -inf past the respective sequence lengths

MaybeMaskScore(score, lengths) ==
    IF lengths = NoLengths THEN score
    ELSE [b \in Rows |-> [t \in Times |->
            IF t > lengths[b] THEN NegInf ELSE score[b][t]]]

\* nn_ops.softmax over the last axis: exp(e - max) / sum(exp(e - max))
Softmax(e) ==
    [b \in Rows |->
        LET m == MaxTo(e[b], MaxTime)
            x == Materialized(
                    [t \in Times |-> Exp(IF e[b][t] = NegInf THEN NegInf ELSE e[b][t] - m)])
            s == SumTo(x, MaxTime)
        IN  [t \in Times |-> Round(x[t] * ONE, s)]]

(***************************************************************************)
(* _smoothing_normalization(e):                                            *)
(*   sigmoid(e) / reduce_sum(sigmoid(e), axis=-1, keepdims=True)           *)
(***************************************************************************)
\* faulty variant: the sum is taken over the batch axis
_smoothing_normalization_axis0(e) ==
    LET sig == Materialized([b \in Rows |-> [t \in Times |-> Sigmoid(e[b][t])]])
        s == [t \in Times |-> SumTo([b \in Rows |-> sig[b][t]], BatchSize)]
    IN  [b \in Rows |-> [t \in Times |->
            IF s[t] = 0 THEN 0 ELSE Round(sig[b][t] * ONE, s[t])]]

\* faulty variant: the divisor is the mean instead of the sum
_smoothing_normalization_mean(e) ==
    LET sig == Materialized([b \in Rows |-> [t \in Times |-> Sigmoid(e[b][t])]])
        s == [b \in Rows |-> Round(SumTo(sig[b], MaxTime), MaxTime)]
    IN  [b \in Rows |-> [t \in Times |->
            IF s[b] = 0 THEN 0 ELSE Round(sig[b][t] * ONE, s[b])]]

\* faulty variant: the logistic transform alone, without the division
_smoothing_normalization_nodiv(e) ==
    [b \in Rows |-> [t \in Times |-> Sigmoid(e[b][t])]]

_smoothing_normalization(e) ==
    LET sig == Materialized([b \in Rows |-> [t \in Times |-> Sigmoid(e[b][t])]])
        s == [b \in Rows |-> SumTo(sig[b], MaxTime)]
    IN  [b \in Rows |-> [t \in Times |-> Round(sig[b][t] * ONE, s[b])]]

(***************************************************************************)
(* LocationSensitiveAttention.__init__                                     *)
(***************************************************************************)
\* faulty variant: the smoothing option is ignored
NormalizationFunctionAlwaysNone(smooth) == None

\* normalization_function = _smoothing_normalization if smoothing == True else None
NormalizationFunction(smooth) ==
    IF smooth = TRUE THEN "_smoothing_normalization" ELSE None

\* faulty variant: the energy is returned without normalization
ProbabilityFnIdentity(fn, lengths, score) == score

\* probability_fn of the base: None defaults to softmax; the score is masked first
ProbabilityFn(fn, lengths, score) ==
    LET masked == Materialized(MaybeMaskScore(score, lengths))
    IN  IF fn = None THEN Softmax(masked) ELSE _smoothing_normalization(masked)

(***************************************************************************)
(* LocationSensitiveAttention.__call__, step by step                       *)
(***************************************************************************)
\* processed_query = self.query_layer(query); tf.expand_dims(processed_query, 1)
ProcessedQuery(query) ==
    [b \in Rows |-> [one \in {1} |-> [u \in Units |->
        Round(SumTo([d \in 1..QueryDepth |-> query[b][d] * query_kernel[d][u]],
                    QueryDepth), ONE)]]]

\* faulty variant: the alignments remembered from the last call are used instead of
\* the state passed in
ExpandedAlignmentsRemembered(prev) ==
    [b \in Rows |-> [t \in Times |-> [c \in {1} |-> state[b][t]]]]

\* expanded_alignments = tf.expand_dims(previous_alignments, axis=2)
ExpandedAlignments(prev) ==
    [b \in Rows |-> [t \in Times |-> [c \in {1} |-> prev[b][t]]]]

\* f = self.location_convolution(expanded_alignments): padding 'same', no bias
PadLeft == (AttentionKernel - 1) \div 2

LocationConvolution(x) ==
    [b \in Rows |-> [t \in Times |-> [f \in Filters |->
        Round(SumTo([k \in Taps |->
                        LET src == t + k - 1 - PadLeft
                        IN  IF src \in Times
                            THEN x[b][src][1] * location_convolution_kernel[k][f]
                            ELSE 0],
                    AttentionKernel), ONE)]]]

\* processed_location_features = self.location_layer(f)
LocationLayer(f) ==
    [b \in Rows |-> [t \in Times |-> [u \in Units |->
        Round(SumTo([c \in Filters |-> f[b][t][c] * location_layer_kernel[c][u]],
                    AttentionFilters), ONE)]]]

\* tf.reduce_sum(v_a * tf.tanh(W_keys + W_query + W_fil), axis=2)
\* W_query has a time axis of length 1 and is broadcast over time
_location_sensitive_score(v_a, W_query, W_fil, W_keys) ==
    [b \in Rows |-> [t \in Times |->
        Round(SumTo([u \in Units |->
                        v_a[u] * Tanh(W_keys[b][t][u] + W_query[b][1][u] + W_fil[b][t][u])],
                    NumUnits), ONE)]]

\* energy of one call, given the v_a it reads and the keys it scores against
Energy(v_a, query, previous_alignments, ks) ==
    LET processed_query == Materialized(ProcessedQuery(query))
        expanded_alignments == Materialized(ExpandedAlignments(previous_alignments))
        f == Materialized(LocationConvolution(expanded_alignments))
        processed_location_features == Materialized(LocationLayer(f))
    IN  Materialized(_location_sensitive_score(
            v_a, processed_query, processed_location_features, ks))

\* alignments = self._probability_fn(energy, previous_alignments)
Alignments(fn, lengths, v_a, query, previous_alignments, ks) ==
    ProbabilityFn(fn, lengths, Energy(v_a, query, previous_alignments, ks))

\* faulty variant: cumulative state
NextStateCumulative(alignments, previous_alignments) ==
    [b \in Rows |-> [t \in Times |-> alignments[b][t] + previous_alignments[b][t]]]

\* next_state = alignments
NextState(alignments, previous_alignments) == alignments

(***************************************************************************)
(* Variable scopes and the variable store (tf.variable_scope, get_variable)*)
(***************************************************************************)
\* Scope names are numbered: 0 is "Location_Sensitive_Attention", i > 0 is
\* "Location_Sensitive_Attention_i".
ScopeIndices == 0..MaxCalls

RECURSIVE FirstUnused(_, _)
FirstUnused(counts, i) ==
    IF i >= MaxCalls \/ counts[i] = 0 THEN i ELSE FirstUnused(counts, i + 1)

\* variable_scope(None, default_name): the default name is made unique among
\* the scopes opened so far
UniqueVariableScope(counts) == FirstUnused(counts, 0)

\* tf.get_variable('v_a', ...) in a scope that does not reuse: creates the
\* variable with its initial value (an existing name would raise ValueError)
GetVariable(store, scope, init) ==
    [i \in DOMAIN store \cup {scope} |-> IF i = scope THEN init ELSE store[i]]

\* faulty variant: the key projection is recomputed by the call
KeysRecomputed(ks, n) ==
    [keys |-> MemoryLayer(PrepareMemory(memory, memory_sequence_length)),
     memory_layer_calls |-> n + 1]

\* __call__ reads self.keys
KeysRead(ks, n) == [keys |-> ks, memory_layer_calls |-> n]

(***************************************************************************)
(* State machine                                                           *)
(***************************************************************************)
\* initial_alignments of the base: zeros
InitialAlignments == [b \in Rows |-> [t \in Times |-> 0]]

NoCall ==
    [kind |-> "none", query |-> [b \in Rows |-> [d \in 1..QueryDepth |-> 0]],
     state |-> InitialAlignments, prev_out |-> InitialAlignments,
     scope |-> 0, v_a |-> [u \in Units |-> 0], keys |-> <<>>, fn |-> None,
     energy |-> InitialAlignments, alignments |-> InitialAlignments,
     next_state |-> InitialAlignments]

\* The state after LocationSensitiveAttention(num_units, memory,
\* memory_sequence_length, smoothing) has been constructed.
Init ==
    /\ smoothing \in BOOLEAN
    /\ memory_sequence_length \in {NoLengths} \cup LengthVectors
    /\ _probability_fn = NormalizationFunction(smoothing)
    /\ keys = MemoryLayer(PrepareMemory(memory, memory_sequence_length))
    /\ memory_layer_calls = 1
    /\ scope_count = [i \in ScopeIndices |-> 0]
    /\ var_store = <<>>
    /\ state = InitialAlignments
    /\ calls = 0
    /\ last = NoCall
    /\ history = {}

\* alignments, next_state = attention(query, previous_alignments); the decoder
\* keeps next_state.  init is the value the initializer gives a new v_a.
Call(kind, query, previous_alignments, init) ==
    LET scope == UniqueVariableScope(scope_count)
        store == GetVariable(var_store, scope, init)
        v_a == store[scope]
        k == KeysRead(keys, memory_layer_calls)
        energy == Energy(v_a, query, previous_alignments, k.keys)
        alignments == ProbabilityFn(_probability_fn, memory_sequence_length, energy)
        next_state == NextState(alignments, previous_alignments)
    IN  /\ calls < MaxCalls
        /\ scope \notin DOMAIN var_store
        /\ scope_count' = [scope_count EXCEPT ![scope] = @ + 1]
        /\ var_store' = store
        /\ keys' = k.keys
        /\ memory_layer_calls' = k.memory_layer_calls
        /\ state' = next_state
        /\ calls' = calls + 1
        /\ last' = [kind |-> kind, query |-> query, state |-> previous_alignments,
                    prev_out |-> last.alignments, scope |-> scope, v_a |-> v_a,
                    keys |-> k.keys, fn |-> _probability_fn, energy |-> energy,
                    alignments |-> alignments, next_state |-> next_state]
        /\ history' = history \cup
                        {[n |-> calls + 1, query |-> query, state |-> previous_alignments,
                          v_a |-> v_a, keys |-> k.keys, alignments |-> alignments]}
        /\ UNCHANGED <<smoothing, memory_sequence_length, _probability_fn>>

\* first decoding step of a sequence: the state is the initial alignments
Start ==
    \E query \in QueryBatches, init \in VaInits :
        Call("start", query, InitialAlignments, init)

\* later decoding step: the state is the next_state of the previous step
Step ==
    /\ calls > 0
    /\ \E query \in QueryBatches, init \in VaInits :
        Call("step", query, state, init)

Next == Start \/ Step

Spec == Init /\ [][Next]_vars

(***************************************************************************)
(* Helpers of the properties                                               *)
(***************************************************************************)
Called == calls > 0

\* positions of row b that lie within its declared valid length
Valid(b) == IF memory_sequence_length = NoLengths THEN Times
            ELSE {t \in Times : t <= memory_sequence_length[b]}

RowSum(a, b) == SumTo(a[b], MaxTime)

\* rounding error a row of MaxTime rounded quotients can accumulate
Tolerance == (MaxTime + 1) \div 2

\* the normalization variant the smoothing option stands for
Selected == IF smoothing THEN "_smoothing_normalization" ELSE None

(***************************************************************************)
(* C1: with exclusive (softmax) normalization every entry of the returned  *)
(* alignment is non-negative and every batch row sums to 1 over the source *)
(* positions, up to the rounding of the quotients.                         *)
(***************************************************************************)
C1_SoftmaxRowsAreDistributions ==
    (Called /\ ~smoothing) =>
        \A b \in Rows :
            /\ \A t \in Times : last.alignments[b][t] >= 0
            /\ Abs(RowSum(last.alignments, b) - ONE) <= Tolerance

C1_Witness ==
    /\ calls >= 2
    /\ ~smoothing
    /\ last.kind = "step"
    /\ \E b \in Rows : \E t \in Times : last.alignments[b][t] \notin {0, ONE}

(***************************************************************************)
(* C2: for a row whose declared valid length L is smaller than the source  *)
(* length, the returned alignment is exactly 0 at every position beyond L, *)
(* under softmax and under smoothing normalization, at every step.         *)
(***************************************************************************)
C2_MaskedPositionsAreZero ==
    Called =>
        \A b \in Rows : \A t \in Times \ Valid(b) : last.alignments[b][t] = 0

C2_Witness ==
    /\ calls >= 2
    /\ smoothing
    /\ last.kind = "step"
    /\ \E b \in Rows : Valid(b) # Times /\ Cardinality(Valid(b)) >= 2
    /\ \E b \in Rows : \E t \in Times \ Valid(b) : last.energy[b][t] # 0

(***************************************************************************)
(* C3 as stated: with smoothing normalization every entry of the returned  *)
(* alignment lies strictly between 0 and 1.                                *)
(***************************************************************************)
C3_Original_StrictlyInside ==
    (Called /\ smoothing) =>
        \A b \in Rows : \A t \in Times :
            last.alignments[b][t] > 0 /\ last.alignments[b][t] < ONE

(***************************************************************************)
(* C3 amended: with smoothing normalization every entry lies in [0, 1]; it *)
(* is exactly 0 at a masked position, exactly 1 at the only valid position *)
(* of a row, and strictly between 0 and 1 at the valid positions of a row  *)
(* with two or more valid positions.                                       *)
(***************************************************************************)
C3_SmoothingEntriesInUnitInterval ==
    (Called /\ smoothing) =>
        \A b \in Rows : \A t \in Times :
            LET a == last.alignments[b][t]
            IN  /\ a >= 0 /\ a <= ONE
                /\ t \notin Valid(b) => a = 0
                /\ Valid(b) = {t} => a = ONE
                /\ (t \in Valid(b) /\ Cardinality(Valid(b)) >= 2) => (a > 0 /\ a < ONE)

C3_Witness ==
    /\ Called /\ smoothing
    /\ last.kind = "step"
    /\ \E b \in Rows : Cardinality(Valid(b)) = 1 /\ Valid(b) # Times
    /\ \E b \in Rows : Cardinality(Valid(b)) >= 2

(***************************************************************************)
(* C4 as stated: under smoothing normalization the entries of a row are    *)
(* independent of one another: changing the energy at one position of a    *)
(* row leaves the output at the other positions of the row unchanged.      *)
(***************************************************************************)
C4_Original_EntriesIndependent ==
    (Called /\ smoothing) =>
        \A b \in Rows : \A t \in Valid(b) : \A other \in Valid(b) \ {t} :
            \A x \in {-ONE, 0, ONE} :
                LET e == [last.energy EXCEPT ![b][other] = x]
                IN  ProbabilityFn(_probability_fn, memory_sequence_length, e)[b][t]
                        = last.alignments[b][t]

(***************************************************************************)
(* C4 amended: under smoothing normalization the entries of a row share    *)
(* the divisor sum(sigmoid(e)), so every row of the returned alignment     *)
(* sums to 1, up to the rounding of the quotients.                         *)
(***************************************************************************)
C4_SmoothingRowsSumToOne ==
    (Called /\ smoothing) =>
        \A b \in Rows : Abs(RowSum(last.alignments, b) - ONE) <= Tolerance

C4_Witness ==
    /\ Called /\ smoothing
    /\ \E b \in Rows :
        /\ Cardinality(Valid(b)) >= 2
        /\ \E t \in Valid(b) : \E u \in Valid(b) : last.energy[b][t] # last.energy[b][u]

(***************************************************************************)
(* C5: the alignment is the only state: every call returns next_state      *)
(* equal to alignments, the decoder's state after the call is exactly that *)
(* alignment, and the state fed to a later step is the alignment output of *)
(* the step before it.                                                     *)
(***************************************************************************)
C5_NextStateIsAlignments ==
    Called =>
        /\ last.next_state = last.alignments
        /\ state = last.alignments
        /\ last.kind = "step" => last.state = last.prev_out

C5_Witness ==
    /\ calls >= 3
    /\ last.kind = "step"
    /\ last.state # InitialAlignments
    /\ last.alignments # last.state

C7_KeysComputedOnce ==
    /\ memory_layer_calls = 1
    /\ keys = MemoryLayer(PrepareMemory(memory, memory_sequence_length))
    /\ \A r \in history : r.keys = keys

C7_Witness ==
    /\ memory_layer_calls = 1
    /\ \E r1 \in history : \E r2 \in history :
        r1.query # r2.query /\ r1.keys = r2.keys

(***************************************************************************)
(* C8: after any number of calls there is exactly one v_a, created by the  *)
(* first call and reused by every later one.                               *)
(***************************************************************************)
C8_SingleScoringVector ==
    Called => (Cardinality(DOMAIN var_store) = 1 /\ last.scope = 0)

(***************************************************************************)
(* C9: the normalization variant is the one the smoothing option selects   *)
(* at construction (softmax when false, _smoothing_normalization when      *)
(* true); no call changes it and every call normalizes with it.            *)
(***************************************************************************)
C9_VariantFixedAtConstruction ==
    /\ _probability_fn = Selected
    /\ Called =>
        /\ last.fn = Selected
        /\ last.alignments =
            IF smoothing
            THEN _smoothing_normalization(MaybeMaskScore(last.energy, memory_sequence_length))
            ELSE Softmax(MaybeMaskScore(last.energy, memory_sequence_length))

C9_Witness ==
    /\ calls >= 2
    /\ smoothing
    /\ last.alignments # Softmax(MaybeMaskScore(last.energy, memory_sequence_length))

(***************************************************************************)
(* C10: the alignment of batch row b depends only on row b's query,        *)
(* previous alignment, memory and valid length: replacing the inputs of    *)
(* all other rows leaves it unchanged, and permuting the rows permutes the *)
(* alignment rows the same way.                                            *)
(***************************************************************************)
\* the inputs of the last call with every row but b replaced
OtherQuery(b) ==
    [r \in Rows |-> IF r = b THEN last.query[r] ELSE [d \in 1..QueryDepth |-> ONE]]

OtherState(b) ==
    [r \in Rows |-> IF r = b THEN last.state[r]
                    ELSE [t \in Times |-> IF t = 1 THEN ONE ELSE 0]]

OtherMemory(b) ==
    [r \in Rows |-> IF r = b THEN memory[r] ELSE MemoryOf(1)[r]]

OtherLengths(b) ==
    IF memory_sequence_length = NoLengths THEN NoLengths
    ELSE [r \in Rows |-> IF r = b THEN memory_sequence_length[r] ELSE 1]

\* rows rotated by one
Rot(r) == (r % BatchSize) + 1

Rotated(x) == [r \in Rows |-> x[Rot(r)]]

C10_RowsIndependent ==
    Called =>
        /\ \A b \in Rows :
            Alignments(_probability_fn, OtherLengths(b), last.v_a, OtherQuery(b),
                       OtherState(b),
                       MemoryLayer(PrepareMemory(OtherMemory(b), OtherLengths(b))))[b]
                = last.alignments[b]
        /\ Alignments(_probability_fn,
                      IF memory_sequence_length = NoLengths THEN NoLengths
                      ELSE Rotated(memory_sequence_length),
                      last.v_a, Rotated(last.query), Rotated(last.state), Rotated(keys))
                = Rotated(last.alignments)

C10_Witness ==
    /\ calls >= 2
    /\ smoothing
    /\ last.kind = "step"
    /\ \E b \in Rows : OtherState(b) # last.state /\ OtherQuery(b) # last.query
    /\ Rotated(last.alignments) # last.alignments

=============================================================================
